---- MODULE Spec2Model ----
(***************************************************************************)
(* The RLPx session of src/src/rplx.rs: the frame codec (write_frame,      *)
(* decode_frame_header, decode_frame_ciphertext), the streaming decoder    *)
(* (decode_frame, decode_frame_data) and the tokio Encoder/Decoder entry   *)
(* points of one RLPx object, fed by a remote node that holds the mirror   *)
(* image of the session's secrets.                                         *)
(*                                                                         *)
(* Bytes are symbolic cells, every one a tuple whose first element is a    *)
(* tag:                                                                    *)
(*   <<"b", v>>            a plain byte of value v                         *)
(*   <<"enc", key, p, c>>  cell c XORed with byte p of key-stream key      *)
(*   <<"mac", i, acc>>     byte i of keccak256.digest of accumulator acc   *)
(*   <<"ack", hs, i, n>>   byte i of the n-byte auth-ack of handshake hs   *)
(*   <<"junk", v>>         a byte altered in transit                       *)
(* A MAC accumulator is the sequence of everything folded into it so far:  *)
(* Keccak is taken to be injective on that sequence, AES-CTR is an         *)
(* involution per key-stream position.                                     *)
(***************************************************************************)
EXTENDS Integers, Sequences, FiniteSets, TLC

VARIABLES
    rlpx_state,   \* RLPx.rlpx_state
    frame_state,  \* RLPx.frame_state
    secrets,      \* RLPx.secrets (Option<HandshakeSecrets>)
    src,          \* the BytesMut handed to Decoder::decode
    dst,          \* the BytesMut handed to Encoder::encode
    ret,          \* what the last encode/decode call returned
    proc,         \* the process: "running", "exited" (process::exit) or "panicked"
    peer,         \* the remote node's secrets (mirror image of secrets)
    wire,         \* bytes the remote node has sent that have not reached src yet
    g             \* history of the run, read by the properties only

vars == <<rlpx_state, frame_state, secrets, src, dst, ret, proc, peer, wire, g>>

----------------------------------------------------------------------------
(* Program constants *)

FRAME_HEADER_CIPHERTEXT_SIZE == 16
FRAME_MAC_SIZE == 16
\* the block the codec pads bodies to (the literal 16 of write_frame and
\* decode_frame_header)
BlockSize == 16
\* ZERO_HEADER: [0, 0, 148, 194, 128, 128, 0, ...]
ZERO_HEADER == <<0, 0, 148, 194, 128, 128, 0, 0, 0, 0, 0, 0, 0, 0, 0, 0>>
\* `data.len() as u16`
U16 == 65536

(* Model bounds *)

\* frames the remote node sends per run
MaxFrames == 2
\* longest frame body the remote node sends
MaxBody == 17
\* auth-ack records the remote node sends per run
MaxAcks == 2
\* encode calls per run
MaxEncodes == 2
\* bytes of one auth-ack record
AckLen == 3
\* bytes altered in transit per run
MaxTamper == 1
\* longest body of a codec round trip
MaxLen == 33
\* decode calls that return an error per run (each one may fold more into
\* the inbound MAC accumulator)
MaxFails == 2

----------------------------------------------------------------------------
(* Cells *)

Plain(v) == <<"b", v>>
IsPlain(c) == c[1] = "b"
Junk == <<"junk", 0>>

PlainSeq(vs) == [i \in 1..Len(vs) |-> Plain(vs[i])]
Zeros(n) == [i \in 1..n |-> Plain(0)]

Take(s, n) == SubSeq(s, 1, n)
Drop(s, n) == SubSeq(s, n + 1, Len(s))

\* `len % 16 > 0 => len = (len / 16 + 1) * 16`
RoundUp16(len) ==
    IF len % BlockSize > 0 THEN ((len \div BlockSize) + 1) * BlockSize ELSE len

----------------------------------------------------------------------------
(* The secrets bundle and its primitives *)

\* StreamCipher::apply_keystream on one byte: XOR with byte p of the
\* key-stream; XORing twice with the same key-stream byte gives the byte back.
XorKeystream(key, p, c) ==
    IF c[1] = "enc" /\ c[2] = key /\ c[3] = p THEN c[4] ELSE <<"enc", key, p, c>>

\* StreamCipher::apply_keystream(buf): the cipher advances by Len(buf)
KeystreamAdvance(ks, n) == [ks EXCEPT !.pos = @ + n]
ApplyKeystream(ks, buf) ==
    [i \in 1..Len(buf) |-> XorKeystream(ks.key, ks.pos + i - 1, buf[i])]

\* keccak256.digest(mac)[..16]
Digest16(mac) == [i \in 1..FRAME_MAC_SIZE |-> <<"mac", i, mac>>]

\* a variant whose seed leaves the header ciphertext out
HeaderMacSeedBlind(mac_secret, mac, header_ciphertext) ==
    <<"hseed", mac_secret, <<>>>>

\* header-mac-seed = aes(mac-secret, keccak256.digest(mac)[:16]) ^ header-ciphertext.
\* The seed is always taken from the digest of the very accumulator it is
\* folded into next, so the digest operand is fixed by the item's place in
\* the accumulator; the item records the key and the block XORed in.
HeaderMacSeed(mac_secret, mac, header_ciphertext) ==
    <<"hseed", mac_secret, header_ciphertext>>

\* frame-mac-seed = aes(mac-secret, keccak256.digest(mac)[:16]) ^ keccak256.digest(mac)[:16]
FrameMacSeed(mac_secret, mac) == <<"fseed", mac_secret>>

\* Keccak256::update(bytes): folds the bytes in, one item per byte
MacUpdate(mac, bytes) == mac \o bytes
\* Keccak256::update(seed): folds a 16-byte seed in, as one item
MacUpdateSeed(mac, seed) == Append(mac, seed)

NoSecrets ==
    [some |-> FALSE, mac_secret |-> 0,
     aes_keystream_egress |-> [key |-> 0, pos |-> 0],
     aes_keystream_ingress |-> [key |-> 0, pos |-> 0],
     egress_mac |-> <<>>, ingress_mac |-> <<>>]

\* ECIES::get_secrets after handshake hs: fresh key-streams and MAC
\* accumulators, one pair per direction
GetSecrets(hs) ==
    [some |-> TRUE, mac_secret |-> hs,
     aes_keystream_egress |-> [key |-> 2 * hs, pos |-> 0],
     aes_keystream_ingress |-> [key |-> 2 * hs + 1, pos |-> 0],
     egress_mac |-> << <<"init", 2 * hs>> >>,
     ingress_mac |-> << <<"init", 2 * hs + 1>> >>]

\* what the remote node derives from the same handshake: its egress is our
\* ingress and the other way round
MirrorSecrets(s) ==
    [s EXCEPT !.aes_keystream_egress = s.aes_keystream_ingress,
              !.aes_keystream_ingress = s.aes_keystream_egress,
              !.egress_mac = s.ingress_mac,
              !.ingress_mac = s.egress_mac]

----------------------------------------------------------------------------
(* RLPx::write_frame *)

\* a variant that writes the length little-endian
FrameHeaderLittleEndian(len) ==
    LET x == len % U16
    IN  PlainSeq([ZERO_HEADER EXCEPT ![2] = x % 256, ![3] = x \div 256])

\* header = frame-size || header-data || header-padding:
\* ZERO_HEADER with bytes 1..2 overwritten by (data.len() as u16).to_be_bytes()
FrameHeader(len) ==
    LET x == len % U16
    IN  PlainSeq([ZERO_HEADER EXCEPT ![2] = x \div 256, ![3] = x % 256])

\* Returns the secrets after the call and the bytes written.
write_frame(sec, data) ==
    LET header_ct == ApplyKeystream(sec.aes_keystream_egress, FrameHeader(Len(data)))
        ks1 == KeystreamAdvance(sec.aes_keystream_egress, Len(header_ct))
        header_mac_seed == HeaderMacSeed(sec.mac_secret, sec.egress_mac, header_ct)
        mac1 == MacUpdateSeed(sec.egress_mac, header_mac_seed)
        header_mac == Digest16(mac1)
        len == RoundUp16(Len(data))
        encrypted == ApplyKeystream(ks1, data \o Zeros(len - Len(data)))
        ks2 == KeystreamAdvance(ks1, len)
        mac2 == MacUpdate(mac1, encrypted)
        frame_mac_seed == FrameMacSeed(sec.mac_secret, mac2)
        mac3 == MacUpdateSeed(mac2, frame_mac_seed)
        frame_mac == Digest16(mac3)
    IN  [sec |-> [sec EXCEPT !.aes_keystream_egress = ks2, !.egress_mac = mac3],
         out |-> header_ct \o header_mac \o encrypted \o frame_mac]

----------------------------------------------------------------------------
(* RLPx::decode_frame_header *)

\* the value of a decrypted header byte; a byte that did not decrypt to a
\* plain one carries no length (never the case once the header MAC matched)
ByteOf(c) == IF IsPlain(c) THEN c[2] ELSE 0

\* u32::from_be_bytes([0, h[0], h[1], h[2]])
PayloadSize(h) == ByteOf(h[1]) * 65536 + ByteOf(h[2]) * 256 + ByteOf(h[3])

\* Returns ok, the error text, the padded body size, the secrets after the
\* call and the header plaintext.  On a MAC mismatch the seed has already
\* been folded into ingress_mac.
decode_frame_header(sec, data_in) ==
    IF Len(data_in) < FRAME_HEADER_CIPHERTEXT_SIZE
    THEN [ok |-> FALSE, err |-> "No header ciphertext! ", size |-> 0, sec |-> sec,
          header |-> <<>>]
    ELSE IF Len(data_in) - FRAME_HEADER_CIPHERTEXT_SIZE < FRAME_MAC_SIZE
    THEN [ok |-> FALSE, err |-> "No header MAC ", size |-> 0, sec |-> sec,
          header |-> <<>>]
    ELSE
    LET header_ciphertext == Take(data_in, FRAME_HEADER_CIPHERTEXT_SIZE)
        header_mac == SubSeq(data_in, FRAME_HEADER_CIPHERTEXT_SIZE + 1,
                             FRAME_HEADER_CIPHERTEXT_SIZE + FRAME_MAC_SIZE)
        header_mac_seed ==
            HeaderMacSeed(sec.mac_secret, sec.ingress_mac, header_ciphertext)
        mac1 == MacUpdateSeed(sec.ingress_mac, header_mac_seed)
        header_mac_computed == Digest16(mac1)
        sec1 == [sec EXCEPT !.ingress_mac = mac1]
        header == ApplyKeystream(sec.aes_keystream_ingress, header_ciphertext)
        sec2 == [sec1 EXCEPT !.aes_keystream_ingress =
                     KeystreamAdvance(@, FRAME_HEADER_CIPHERTEXT_SIZE)]
    IN  IF header_mac_computed # header_mac
        THEN [ok |-> FALSE, err |-> "Header MAC mismatch!", size |-> 0,
              sec |-> sec1, header |-> <<>>]
        ELSE [ok |-> TRUE, err |-> "", size |-> RoundUp16(PayloadSize(header)),
              sec |-> sec2, header |-> header]

----------------------------------------------------------------------------
(* RLPx::decode_frame_ciphertext *)

\* a variant whose cipher stops one byte short of the padded body
IngressAfterBodyShort(ks, frame_ciphertext) ==
    KeystreamAdvance(ks, Len(frame_ciphertext) - 1)

\* the inbound cipher after apply_keystream(frame_ciphertext)
IngressAfterBody(ks, frame_ciphertext) ==
    KeystreamAdvance(ks, Len(frame_ciphertext))

\* Returns ok, the error text, the secrets after the call and the plaintext.
\* On a MAC mismatch the ciphertext and the seed have already been folded
\* into ingress_mac.  (data_in.len() - FRAME_MAC_SIZE underflows for a slice
\* shorter than the MAC; decode_frame never passes one.)
decode_frame_ciphertext(sec, data_in) ==
    IF Len(data_in) < FRAME_MAC_SIZE
    THEN [ok |-> FALSE, err |-> "No frame MAC, invalid frame length ",
          sec |-> sec, plain |-> <<>>]
    ELSE
    LET frame_ciphertext == Take(data_in, Len(data_in) - FRAME_MAC_SIZE)
        frame_mac == Drop(data_in, Len(data_in) - FRAME_MAC_SIZE)
        mac1 == MacUpdate(sec.ingress_mac, frame_ciphertext)
        frame_mac_seed == FrameMacSeed(sec.mac_secret, mac1)
        mac2 == MacUpdateSeed(mac1, frame_mac_seed)
        frame_mac_computed == Digest16(mac2)
        sec1 == [sec EXCEPT !.ingress_mac = mac2]
        plain == ApplyKeystream(sec.aes_keystream_ingress, frame_ciphertext)
        sec2 == [sec1 EXCEPT !.aes_keystream_ingress =
                     IngressAfterBody(@, frame_ciphertext)]
    IN  IF frame_mac_computed # frame_mac
        THEN [ok |-> FALSE, err |-> "Frame MAC mismatch!", sec |-> sec1,
              plain |-> <<>>]
        ELSE [ok |-> TRUE, err |-> "", sec |-> sec2, plain |-> plain]

----------------------------------------------------------------------------
(* Messages and the key-exchange provider *)

\* Hello::ID
HelloID == 0
\* the id of the eth Status message, the first one a peer sends after Hello
StatusID == 16

\* alloy_rlp's encoding of a u8: 0 is the empty string 0x80, 1..0x7f is itself
RlpEncodeU8(v) == IF v = 0 THEN 128 ELSE v
\* alloy_rlp's u8::decode on a one-byte slice: 0x00 is a leading zero, 0x81 and
\* above announce a payload the slice does not hold
RlpDecodeU8(b) ==
    IF b = 128 THEN [ok |-> TRUE, v |-> 0]
    ELSE IF b >= 1 /\ b <= 127 THEN [ok |-> TRUE, v |-> b]
    ELSE [ok |-> FALSE, v |-> 0]

\* a frame body: the RLP of the message id, then n payload bytes
Body(id, n) == PlainSeq(<<RlpEncodeU8(id)>> \o [i \in 1..n |-> 7])

\* the body hello_msg builds: Hello::ID, then the RLP of the Hello record
HelloPayloadLen == 2
HelloBody == Body(HelloID, HelloPayloadLen)

\* ECIES::get_auth_request
AuthLen == 2
AuthRequest == [i \in 1..AuthLen |-> <<"auth", i>>]

\* the auth-ack the remote node answers handshake hs with
AckRecord(hs) == [i \in 1..AckLen |-> <<"ack", hs, i, AckLen>>]

\* ECIES::decrypt: succeeds on a buffer that starts with a whole auth-ack
\* and reports how many bytes the record took
EciesDecrypt(buf) ==
    IF /\ Len(buf) >= 1
       /\ buf[1][1] = "ack"
       /\ Len(buf) >= buf[1][4]
       /\ Take(buf, buf[1][4]) = AckRecord(buf[1][2])
    THEN [ok |-> TRUE, frame_size |-> buf[1][4], hs |-> buf[1][2]]
    ELSE [ok |-> FALSE, frame_size |-> 0, hs |-> 0]

----------------------------------------------------------------------------
(* The session: RLPx *)

DecodingHeader == [tag |-> "DecodingHeader", size |-> 0]
\* a variant that does not keep the progress made on a frame
DecodingFrameForgotten(n) == [tag |-> "DecodingHeader", size |-> 0]

DecodingFrame(n) == [tag |-> "DecodingFrame", size |-> n]

\* a variant that hands the calls the secrets with the two directions swapped
SessionSwapped == [rlpx_state |-> rlpx_state, frame_state |-> frame_state,
                   secrets |-> MirrorSecrets(secrets)]

\* the fields of RLPx that encode and decode read and write
Session == [rlpx_state |-> rlpx_state, frame_state |-> frame_state,
            secrets |-> secrets]

\* what a call leaves behind: the session, the buffer, the value returned
\* (with the error text logged on the way) and the process
\* a variant that drops what is left in the buffer when a call fails
ReturnedCleared(s, buf, r, e) ==
    [s |-> s, buf |-> IF r = "Err" THEN <<>> ELSE buf, ret |-> r, err |-> e,
     proc |-> "running"]

Returned(s, buf, r, e) == [s |-> s, buf |-> buf, ret |-> r, err |-> e, proc |-> "running"]
Panicked(s, buf, e) == [s |-> s, buf |-> buf, ret |-> "panic", err |-> e, proc |-> "panicked"]
Exited(s, buf) == [s |-> s, buf |-> buf, ret |-> "exit", err |-> "", proc |-> "exited"]

\* a variant that takes every frame for a Hello
decode_frame_data_any(frame) == "Hello"

\* RLPx::decode_frame_data: "Hello", or the way the process ends
decode_frame_data(frame) ==
    IF Len(frame) < 1 THEN "panic"                 \* frame.split_at(1)
    ELSE LET message_id == RlpDecodeU8(ByteOf(frame[1]))
         IN  IF ~message_id.ok THEN "panic"        \* Err(..), unwrapped by decode_frame
             ELSE IF message_id.v = HelloID THEN "Hello"
             ELSE "exit"                           \* process::exit(0)

\* a variant that advances past the body and leaves its MAC in the buffer
FrameAdvanceNoMac(frame_ciphertext_size) == frame_ciphertext_size

\* src.advance(frame_ciphertext_size + FRAME_MAC_SIZE)
FrameAdvance(frame_ciphertext_size) == frame_ciphertext_size + FRAME_MAC_SIZE

\* RLPx::decode_frame, the match on FrameState::DecodingFrame
decode_frame_body(s, buf) ==
    LET frame_ciphertext_size == s.frame_state.size
    IN  IF Len(buf) >= frame_ciphertext_size
        THEN IF Len(buf) < frame_ciphertext_size + FRAME_MAC_SIZE
             THEN Panicked(s, buf, "range end index out of range for slice")
             ELSE IF ~s.secrets.some
             THEN Panicked(s, buf, "unwrap on None")
             ELSE
             LET c == decode_frame_ciphertext(
                          s.secrets, Take(buf, frame_ciphertext_size + FRAME_MAC_SIZE))
                 s1 == [s EXCEPT !.secrets = c.sec]
                 decrypted == c.plain \o Drop(buf, frame_ciphertext_size)
                 message_id == decode_frame_data(c.plain)
             IN  IF ~c.ok THEN Returned(s1, buf, "Err", c.err)
                 ELSE IF message_id = "panic"
                 THEN Panicked(s1, decrypted, "decode_frame_data")
                 ELSE IF message_id = "exit" THEN Exited(s1, decrypted)
                 ELSE Returned([s1 EXCEPT !.frame_state = DecodingHeader],
                               Drop(buf, FrameAdvance(frame_ciphertext_size)),
                               "Hello", "")
        ELSE Returned(s, buf, "None", "")

\* RLPx::decode_frame
decode_frame(s, buf) ==
    IF s.frame_state = DecodingHeader
    THEN IF Len(buf) >= FRAME_HEADER_CIPHERTEXT_SIZE + FRAME_MAC_SIZE
         THEN IF ~s.secrets.some
              THEN Panicked(s, buf, "unwrap on None")
              ELSE
              LET h == decode_frame_header(s.secrets, buf)
                  s1 == [s EXCEPT !.secrets = h.sec]
              IN  IF ~h.ok THEN Returned(s1, buf, "Err", h.err)
                  ELSE decode_frame_body(
                           [s1 EXCEPT !.frame_state = DecodingFrame(h.size)],
                           Drop(buf, FRAME_HEADER_CIPHERTEXT_SIZE + FRAME_MAC_SIZE))
         ELSE Returned(s, buf, "None", "")
    ELSE decode_frame_body(s, buf)

\* Decoder::decode
decode(s, buf) ==
    IF Len(buf) = 0 THEN Returned(s, buf, "None", "")
    ELSE IF s.rlpx_state = "AuthSent"
    THEN LET d == EciesDecrypt(buf)
         IN  IF ~d.ok THEN Returned(s, buf, "Err", "Frame decrypt Error")
             ELSE Returned([rlpx_state |-> "AuthAckRecieved",
                            frame_state |-> DecodingHeader,
                            secrets |-> GetSecrets(d.hs)],
                           Drop(buf, d.frame_size), "AuthAck", "")
    ELSE IF s.rlpx_state = "AuthAckRecieved"
    THEN LET r == decode_frame(s, buf)
         IN  IF r.proc # "running" THEN r
             ELSE IF r.ret = "Hello"
             THEN [r EXCEPT !.s.rlpx_state = "Active"]
             ELSE IF r.ret = "None" THEN r
             ELSE [r EXCEPT !.ret = "Err"]
    ELSE IF s.rlpx_state = "Active"
    THEN decode_frame(s, buf)
    ELSE Returned(s, buf, "Err", "Invalid frame!! ")

\* Encoder::encode; buf is dst
EncodeItems == {"Auth", "AuthAck", "Hello", "Disconnect", "Ping", "Pong", "Status"}

encode(s, item, buf) ==
    IF item = "Auth"
    THEN Returned([s EXCEPT !.rlpx_state = "AuthSent"], AuthRequest, "Ok", "")
    ELSE IF item = "Hello"
    THEN IF ~s.secrets.some
         THEN Panicked(s, buf, "unwrap on None")      \* write_frame, line 81
         ELSE LET w == write_frame(s.secrets, HelloBody)
              IN  Returned([s EXCEPT !.secrets = w.sec], buf \o w.out, "Ok", "")
    ELSE Panicked(s, buf, "not yet implemented")      \* todo!()

----------------------------------------------------------------------------
(* The run: the caller of encode/decode, the remote node and the transport *)

\* the bodies the remote node frames: a Hello, the Status that follows it
\* (longer than one block), and an empty body
RemoteBodies == {HelloBody, Body(StatusID, MaxBody - 1), <<>>}

\* What a run may hold.  A run is one of three kinds: a stream of frames
\* after one handshake, a session whose caller encodes Auth again, and a
\* stream in which a byte is altered in transit.
Stream ==
    [auths |-> 1, acks |-> 1, encodes |-> MaxEncodes, frames |-> MaxFrames,
     tampers |-> 0, bodies |-> RemoteBodies]
Reauth ==
    [auths |-> MaxEncodes, acks |-> MaxAcks, encodes |-> MaxEncodes + 1,
     frames |-> MaxFrames - 1, tampers |-> 0, bodies |-> RemoteBodies]
Tampered ==
    [auths |-> 1, acks |-> 1, encodes |-> 1, frames |-> MaxFrames,
     tampers |-> MaxTamper, bodies |-> {HelloBody}]
Runs == {Stream, Reauth, Tampered}

\* the last round trip of the codec (read by the properties only)
NoRoundTrip ==
    [done |-> FALSE, body |-> <<>>, hok |-> FALSE, size |-> 0, cok |-> FALSE,
     plain |-> <<>>]

Init ==
    /\ rlpx_state = "ExpectingConnection"
    /\ frame_state = DecodingHeader
    /\ secrets = NoSecrets
    /\ src = <<>>
    /\ dst = <<>>
    /\ ret = "none"
    /\ proc = "running"
    /\ peer = NoSecrets
    /\ wire = <<>>
    /\ \E lim \in Runs :
       g = [lim |-> lim, err |-> "",
            auths |-> 0, acks |-> 0, frames |-> 0, tampers |-> 0, encodes |-> 0,
            sent |-> <<>>, sentlen |-> 0, decoded |-> 0, installs |-> 0,
            fails |-> 0, oks |-> 0, reclens |-> <<>>, rt |-> NoRoundTrip]

\* a variant that loses the secrets a call installed or advanced
LandWithoutSecrets(r) ==
    /\ rlpx_state' = r.s.rlpx_state
    /\ frame_state' = r.s.frame_state
    /\ secrets' = NoSecrets
    /\ ret' = r.ret
    /\ proc' = r.proc

\* the session and the process after a call
Land(r) ==
    /\ rlpx_state' = r.s.rlpx_state
    /\ frame_state' = r.s.frame_state
    /\ secrets' = r.s.secrets
    /\ ret' = r.ret
    /\ proc' = r.proc

\* the caller invokes Encoder::encode(item, dst), between two reads
Encode(item) ==
    /\ proc = "running"
    /\ g.encodes < g.lim.encodes
    /\ item = "Auth" => g.auths < g.lim.auths
    /\ wire = <<>>
    /\ LET r == encode(Session, item, dst)
       IN  /\ Land(r)
           /\ dst' = r.buf
           /\ g' = [g EXCEPT !.err = r.err,
                             !.encodes = @ + 1,
                             !.auths = IF item = "Auth" THEN @ + 1 ELSE @]
    /\ UNCHANGED <<src, peer, wire>>

\* the caller invokes Decoder::decode(src)
Decode ==
    /\ proc = "running"
    /\ g.fails < MaxFails
    /\ LET r == decode(Session, src)
       IN  /\ Land(r)
           /\ src' = r.buf
           /\ g' = [g EXCEPT !.err = r.err,
                             !.fails = IF r.ret = "Err" THEN @ + 1 ELSE @,
                             !.oks = IF r.ret \in {"AuthAck", "Hello"} THEN @ + 1 ELSE @,
                             !.decoded = IF r.ret = "AuthAck" THEN 0
                                         ELSE IF r.ret = "Hello" THEN @ + 1 ELSE @,
                             !.installs = IF r.ret = "AuthAck" THEN @ + 1 ELSE @]
    /\ UNCHANGED <<dst, peer, wire>>

\* the remote node answers an auth request: it derives its secrets and
\* sends the auth-ack
RemoteAck ==
    /\ proc = "running"
    /\ g.acks < g.lim.acks
    /\ g.acks < g.auths
    /\ wire = <<>>
    /\ LET hs == g.acks + 1
       IN  /\ peer' = MirrorSecrets(GetSecrets(hs))
           /\ wire' = wire \o AckRecord(hs)
           /\ g' = [g EXCEPT !.acks = hs, !.sentlen = AckLen,
                             !.reclens = Append(@, AckLen),
                             !.sent = Append(@, [hs |-> hs, k |-> 0,
                                                 ks |-> peer'.aes_keystream_egress,
                                                 mac |-> peer'.egress_mac])]
    /\ UNCHANGED <<rlpx_state, frame_state, secrets, src, dst, ret, proc>>

\* frames the remote node has written since handshake hs
FramesOf(sent, hs) ==
    LET OfHs(e) == e.hs = hs /\ e.k > 0 IN Len(SelectSeq(sent, OfHs))

\* the remote node frames a message with its own write_frame
RemoteFrame(body) ==
    /\ proc = "running"
    /\ peer.some
    /\ g.frames < g.lim.frames
    /\ body \in g.lim.bodies
    /\ wire = <<>>
    /\ LET w == write_frame(peer, body)
       IN  /\ peer' = w.sec
           /\ wire' = wire \o w.out
           /\ g' = [g EXCEPT !.frames = @ + 1, !.sentlen = Len(w.out),
                             !.reclens = Append(@, Len(w.out)),
                             !.sent = Append(@, [hs |-> peer.mac_secret,
                                                 k |-> FramesOf(g.sent, peer.mac_secret) + 1,
                                                 ks |-> w.sec.aes_keystream_egress,
                                                 mac |-> w.sec.egress_mac])]
    /\ UNCHANGED <<rlpx_state, frame_state, secrets, src, dst, ret, proc>>

\* the transport hands the next byte to the caller's read buffer; a read of
\* k bytes is k of these steps with no decode call between them
Deliver ==
    /\ proc = "running"
    /\ wire # <<>>
    /\ src' = Append(src, Head(wire))
    /\ wire' = Tail(wire)
    /\ g' = g
    /\ UNCHANGED <<rlpx_state, frame_state, secrets, dst, ret, proc, peer>>

\* the parts of a record in transit: of a frame the encrypted header, the
\* header MAC, the encrypted body and the body MAC, each by its first byte
Parts(w) ==
    IF w = <<>> THEN {}
    ELSE IF w[1][1] = "ack" THEN {1}
    ELSE {1, FRAME_HEADER_CIPHERTEXT_SIZE + 1,
          FRAME_HEADER_CIPHERTEXT_SIZE + FRAME_MAC_SIZE + 1,
          Len(w) - FRAME_MAC_SIZE + 1}

\* a byte of the record just sent is altered in transit
Tamper(i) ==
    /\ proc = "running"
    /\ g.tampers < g.lim.tampers
    /\ g.sentlen = Len(wire)
    /\ wire' = [wire EXCEPT ![i] = Junk]
    /\ g' = [g EXCEPT !.tampers = @ + 1]
    /\ UNCHANGED <<rlpx_state, frame_state, secrets, src, dst, ret, proc, peer>>

Next ==
    \/ \E item \in EncodeItems : Encode(item)
    \/ Decode
    \/ RemoteAck
    \/ \E body \in RemoteBodies : RemoteFrame(body)
    \/ Deliver
    \/ \E i \in Parts(wire) : Tamper(i)

Spec == Init /\ [][Next]_vars

----------------------------------------------------------------------------
(* The codec alone: the remote node's write_frame against the session's *)
(* decode_frame_header and decode_frame_ciphertext, frame after frame   *)

\* a body of n bytes, none of them zero
CodecBody(n) == PlainSeq([i \in 1..n |-> (i % 250) + 1])

\* the session right after the handshake, the remote node holding the
\* matching secrets
InitCodec ==
    /\ rlpx_state = "AuthAckRecieved"
    /\ frame_state = DecodingHeader
    /\ secrets = GetSecrets(1)
    /\ src = <<>>
    /\ dst = <<>>
    /\ ret = "AuthAck"
    /\ proc = "running"
    /\ peer = MirrorSecrets(GetSecrets(1))
    /\ wire = <<>>
    /\ g = [lim |-> Stream, err |-> "",
            auths |-> 1, acks |-> 1, frames |-> 0, tampers |-> 0, encodes |-> 1,
            sent |-> <<>>, sentlen |-> 0, decoded |-> 0, installs |-> 1,
            fails |-> 0, oks |-> 1, reclens |-> <<>>, rt |-> NoRoundTrip]

\* write_frame(body) by the sender, then decode_frame_header on the first
\* 32 bytes and decode_frame_ciphertext on the rest by the receiver
RoundTrip(body) ==
    /\ g.frames < MaxFrames
    /\ LET w == write_frame(peer, body)
           hlen == FRAME_HEADER_CIPHERTEXT_SIZE + FRAME_MAC_SIZE
           h == decode_frame_header(secrets, Take(w.out, hlen))
           c == decode_frame_ciphertext(h.sec, Drop(w.out, hlen))
       IN  /\ peer' = w.sec
           /\ secrets' = IF h.ok THEN c.sec ELSE h.sec
           /\ g' = [g EXCEPT !.frames = @ + 1,
                             !.rt = [done |-> TRUE, body |-> body, hok |-> h.ok,
                                     size |-> h.size, cok |-> h.ok /\ c.ok,
                                     plain |-> IF h.ok THEN c.plain ELSE <<>>]]
    /\ UNCHANGED <<rlpx_state, frame_state, src, dst, ret, proc, wire>>

NextCodec == \E n \in 0..MaxLen : RoundTrip(CodecBody(n))

SpecCodec == InitCodec /\ [][NextCodec]_vars

----------------------------------------------------------------------------
(* write_frame alone, on bodies up to and beyond the 16-bit range of the *)
(* length it writes                                                      *)

\* the body lengths tried: the short ones, and the ones around 65536
Lengths == (0..MaxLen) \cup {U16 - 1, U16, U16 + 1}

NoFrameWritten == [done |-> FALSE, len |-> 0, field |-> 0, outlen |-> 0]

InitLength ==
    /\ rlpx_state = "AuthAckRecieved"
    /\ frame_state = DecodingHeader
    /\ secrets = GetSecrets(1)
    /\ src = <<>>
    /\ dst = <<>>
    /\ ret = "AuthAck"
    /\ proc = "running"
    /\ peer = MirrorSecrets(GetSecrets(1))
    /\ wire = <<>>
    /\ g = [frames |-> 0, wf |-> NoFrameWritten]

\* the session frames a body of n bytes; the run keeps the length field as
\* a receiver in step with the sender's key-stream reads it from the
\* decrypted header (bytes 1 and 2) and the number of bytes written.  A body longer than MaxLen is the only frame
\* of its run.
WriteFrame(n) ==
    /\ g.frames < MaxFrames
    /\ g.frames > 0 => (n <= MaxLen /\ g.wf.len <= MaxLen)
    /\ LET w == write_frame(secrets, CodecBody(n))
           header == ApplyKeystream(secrets.aes_keystream_egress,
                                    Take(w.out, FRAME_HEADER_CIPHERTEXT_SIZE))
       IN  /\ secrets' = w.sec
           /\ g' = [g EXCEPT !.frames = @ + 1,
                             !.wf = [done |-> TRUE, len |-> n,
                                     field |-> ByteOf(header[2]) * 256 + ByteOf(header[3]),
                                     outlen |-> Len(w.out)]]
    /\ UNCHANGED <<rlpx_state, frame_state, src, dst, ret, proc, peer, wire>>

NextLength == \E n \in Lengths : WriteFrame(n)

SpecLength == InitLength /\ [][NextLength]_vars

----------------------------------------------------------------------------
(* Two sessions facing each other: A in rlpx_state/frame_state/secrets,  *)
(* B in peer.  What A encodes into dst is what B decodes; what B encodes *)
(* into src is what A decodes.                                           *)

\* RLPx::new: the only constructor; direction is always Outgoing
NewSession ==
    [rlpx_state |-> "ExpectingConnection", frame_state |-> DecodingHeader,
     secrets |-> NoSecrets]

InitPair ==
    /\ rlpx_state = NewSession.rlpx_state
    /\ frame_state = NewSession.frame_state
    /\ secrets = NewSession.secrets
    /\ src = <<>>
    /\ dst = <<>>
    /\ ret = "none"
    /\ proc = "running"
    /\ peer = [s |-> NewSession, ret |-> "none", proc |-> "running"]
    /\ wire = <<>>
    /\ g = [aenc |-> 0, benc |-> 0, afails |-> 0, bfails |-> 0,
            ahello |-> FALSE, bhello |-> FALSE]

\* A invokes Encoder::encode(item, dst)
PairEncodeA(item) ==
    /\ proc = "running"
    /\ g.aenc < MaxEncodes
    /\ LET r == encode(Session, item, dst)
       IN  /\ Land(r)
           /\ dst' = r.buf
           /\ g' = [g EXCEPT !.aenc = @ + 1]
    /\ UNCHANGED <<src, peer, wire>>

\* B invokes Decoder::decode on the bytes A wrote
PairDecodeB ==
    /\ peer.proc = "running"
    /\ g.bfails < MaxFails
    /\ LET r == decode(peer.s, dst)
       IN  /\ peer' = [s |-> r.s, ret |-> r.ret, proc |-> r.proc]
           /\ dst' = r.buf
           /\ g' = [g EXCEPT !.bfails = IF r.ret = "Err" THEN @ + 1 ELSE @,
                             !.bhello = @ \/ r.ret = "Hello"]
    /\ UNCHANGED <<rlpx_state, frame_state, secrets, src, ret, proc, wire>>

\* B invokes Encoder::encode(item, ..) towards A
PairEncodeB(item) ==
    /\ peer.proc = "running"
    /\ g.benc < MaxEncodes
    /\ LET r == encode(peer.s, item, src)
       IN  /\ peer' = [s |-> r.s, ret |-> r.ret, proc |-> r.proc]
           /\ src' = r.buf
           /\ g' = [g EXCEPT !.benc = @ + 1]
    /\ UNCHANGED <<rlpx_state, frame_state, secrets, dst, ret, proc, wire>>

\* A invokes Decoder::decode on the bytes B wrote
PairDecodeA ==
    /\ proc = "running"
    /\ g.afails < MaxFails
    /\ LET r == decode(Session, src)
       IN  /\ Land(r)
           /\ src' = r.buf
           /\ g' = [g EXCEPT !.afails = IF r.ret = "Err" THEN @ + 1 ELSE @,
                             !.ahello = @ \/ r.ret = "Hello"]
    /\ UNCHANGED <<dst, peer, wire>>

NextPair ==
    \/ \E item \in EncodeItems : PairEncodeA(item)
    \/ PairDecodeB
    \/ \E item \in EncodeItems : PairEncodeB(item)
    \/ PairDecodeA

SpecPair == InitPair /\ [][NextPair]_vars

----------------------------------------------------------------------------
(* Properties *)

\* the order of the states of spec section 4.2
Rank(st) ==
    CASE st = "ExpectingConnection" -> 0
      [] st = "AuthSent" -> 1
      [] st = "AuthAckRecieved" -> 2
      [] st = "Active" -> 3
      [] st = "Disconnected" -> 4

\* C1: no encode or decode call moves rlpx_state back to an earlier state
\* of ExpectingConnection -> AuthSent -> AuthAckReceived -> Active ->
\* Disconnected; encode(Auth) in a later state does not return it to AuthSent.
C1_StateOnlyMovesForward == [][Rank(rlpx_state') >= Rank(rlpx_state)]_vars

\* the errors that are authentication failures
AuthFailures == {"Frame decrypt Error", "Header MAC mismatch!", "Frame MAC mismatch!"}

\* C2: when a decode call fails with an authentication failure (key-exchange
\* decryption failure, header MAC mismatch, frame MAC mismatch) the session
\* is Disconnected when the call returns.
C2_AuthFailureDisconnects ==
    (ret = "Err" /\ g.err \in AuthFailures) => rlpx_state = "Disconnected"

\* C6: the AuthSent -> AuthAckReceived transition and the installation of
\* the secrets happen at most once per session, and the secrets, once
\* present, stay present.
C6_SecretsInstalledOnce ==
    /\ g.installs <= 1
    /\ g.installs >= 1 => secrets.some

\* whether the buffer holds fewer bytes than the record being decoded needs
NeedsMore(fs, buf) ==
    IF fs = DecodingHeader
    THEN Len(buf) < FRAME_HEADER_CIPHERTEXT_SIZE + FRAME_MAC_SIZE
    ELSE Len(buf) < fs.size + FRAME_MAC_SIZE

\* C3: in AuthAckReceived or Active, a decode call on a buffer that holds
\* fewer bytes than the current record needs (fewer than 32 awaiting a
\* header, fewer than padded_body_length + 16 awaiting a body and its MAC)
\* returns Ok(None), does not crash and leaves the buffer as it was.
C3_ShortBufferIsPending ==
    [][(/\ Decode
        /\ rlpx_state \in {"AuthAckRecieved", "Active"}
        /\ NeedsMore(frame_state, src))
       => (ret' = "None" /\ proc' = "running" /\ src' = src)]_vars

\* the bytes of rest fed k at a time, decode called after every chunk:
\* whether every call before the last returned Ok(None), and the last result
RECURSIVE Feed(_, _, _, _)
Feed(s, buf, rest, k) ==
    LET n == IF k < Len(rest) THEN k ELSE Len(rest)
        r == decode(s, buf \o Take(rest, n))
    IN  IF n = Len(rest) THEN [pending |-> TRUE, last |-> r]
        ELSE IF r.ret # "None" THEN [pending |-> FALSE, last |-> r]
        ELSE Feed(r.s, r.buf, Drop(rest, n), k)

\* a frame as the remote node wrote it lies wholly in transit, the session
\* stands before its header, and one decode call on the whole frame yields
\* its message
FrameInTransit ==
    /\ proc = "running"
    /\ rlpx_state \in {"AuthAckRecieved", "Active"}
    /\ frame_state = DecodingHeader
    /\ src = <<>>
    /\ wire # <<>>
    /\ wire[1][1] # "ack"
    /\ Len(wire) = g.sentlen
    /\ g.tampers = 0
    /\ decode(Session, wire).ret = "Hello"

\* C4: the bytes of one frame fed to decode in chunks of any size give the
\* result, the session state and the inbound MAC/key-stream state of one
\* call on all of them, and every call before the last returns Ok(None).
C4_ChunkedEqualsWhole ==
    FrameInTransit =>
        \A k \in 1..Len(wire) :
            LET f == Feed(Session, <<>>, wire, k)
                whole == decode(Session, wire)
            IN  /\ f.pending
                /\ f.last.ret = whole.ret
                /\ f.last.s = whole.s

RECURSIVE PrefixSum(_, _)
PrefixSum(lens, n) == IF n = 0 THEN 0 ELSE lens[n] + PrefixSum(lens, n - 1)

\* the bytes decode has taken from the front of src so far
Consumed == PrefixSum(g.reclens, Len(g.reclens)) - Len(wire) - Len(src)

\* C5: a successful decode takes from the front of src exactly the bytes of
\* the record it decoded (the auth-ack as long as the remote node wrote it;
\* the frame's 32 + padded body + 16 over however many calls) and leaves
\* what follows in the buffer, unchanged and in order.
C5_ConsumesExactlyTheRecord ==
    [][(Decode /\ ret' \in {"AuthAck", "Hello"})
       => /\ \E k \in 0..Len(src) : src' = Drop(src, k)
          /\ g'.oks <= Len(g.reclens)
          /\ Consumed' = PrefixSum(g.reclens, g'.oks)]_vars

\* the auth-ack and two frames decoded, each taken whole from the buffer
C5_Witness ==
    /\ proc = "running" /\ ret = "Hello" /\ g.oks = 3
    /\ Consumed = PrefixSum(g.reclens, 3)

\* the message id of the frame at the front of buf, when the frame is
\* whole and both its MACs verify; -1 otherwise
PeekFrame(s, buf) ==
    LET hdr == s.frame_state = DecodingHeader
        h == decode_frame_header(s.secrets, buf)
        sec == IF hdr THEN h.sec ELSE s.secrets
        size == IF hdr THEN h.size ELSE s.frame_state.size
        rest == IF hdr THEN Drop(buf, FRAME_HEADER_CIPHERTEXT_SIZE + FRAME_MAC_SIZE)
                ELSE buf
        c == decode_frame_ciphertext(sec, Take(rest, size + FRAME_MAC_SIZE))
        id == RlpDecodeU8(ByteOf(c.plain[1]))
    IN  IF ~s.secrets.some THEN -1
        ELSE IF hdr /\ ~h.ok THEN -1
        ELSE IF Len(rest) < size + FRAME_MAC_SIZE THEN -1
        ELSE IF ~c.ok \/ Len(c.plain) < 1 THEN -1
        ELSE IF ~id.ok THEN -1
        ELSE id.v

\* C7: a session in AuthAckReceived that decodes a frame with valid MACs
\* whose message id is not Hello returns a fatal result to the caller (the
\* process goes on), becomes Disconnected, and no later call changes its
\* MAC accumulators.
C7_NonHelloInHandshakeIsFatalResult ==
    [][/\ (/\ Decode
           /\ rlpx_state = "AuthAckRecieved"
           /\ PeekFrame(Session, src) \notin {-1, HelloID})
          => (proc' = "running" /\ ret' = "Err" /\ rlpx_state' = "Disconnected")
       /\ rlpx_state = "Disconnected"
          => (/\ secrets'.ingress_mac = secrets.ingress_mac
              /\ secrets'.egress_mac = secrets.egress_mac)]_vars

\* C8: a session in Active that decodes a frame with valid MACs whose
\* message id is not Hello returns an "unhandled message" event, stays
\* Active and goes on running.
C8_UnhandledInActiveIsAnEvent ==
    [][(/\ Decode
        /\ rlpx_state = "Active"
        /\ PeekFrame(Session, src) \notin {-1, HelloID})
       => (proc' = "running" /\ ret' = "Unhandled" /\ rlpx_state' = "Active")]_vars

\* C9: right after the receiver has decoded the first k frames the sender
\* wrote since the handshake (k >= 0), its inbound key-stream position and
\* inbound MAC accumulator are the sender's outbound ones as they stood
\* right after the sender wrote frame k.
C9_InboundFollowsOutbound ==
    (proc = "running" /\ ret \in {"AuthAck", "Hello"}) =>
        \E i \in 1..Len(g.sent) :
            /\ g.sent[i].hs = secrets.mac_secret
            /\ g.sent[i].k = g.decoded
            /\ g.sent[i].ks = secrets.aes_keystream_ingress
            /\ g.sent[i].mac = secrets.ingress_mac

\* the receiver has decoded two frames in a row
C9_Witness == proc = "running" /\ ret = "Hello" /\ g.decoded = 2

\* the least multiple of the block size that is at least n
CeilBlock(n) == CHOOSE m \in n..(n + BlockSize - 1) : m % BlockSize = 0

\* C10: for a body of n bytes and matching secrets in the same position,
\* decode_frame_header on the first 32 bytes of write_frame(body) and
\* decode_frame_ciphertext on the rest succeed, the declared length is n
\* rounded up to the next multiple of 16, and the plaintext is the body
\* followed by zero bytes only.
C10_FrameRoundTrip ==
    g.rt.done =>
        LET n == Len(g.rt.body)
        IN  /\ g.rt.hok
            /\ g.rt.cok
            /\ g.rt.size = CeilBlock(n)
            /\ Len(g.rt.plain) = g.rt.size
            /\ Take(g.rt.plain, n) = g.rt.body
            /\ \A i \in (n + 1)..Len(g.rt.plain) : g.rt.plain[i] = Plain(0)

\* a second frame in a row, its body padded, has gone round
C10_Witness ==
    /\ g.rt.done /\ g.rt.cok /\ g.frames = 2
    /\ Len(g.rt.body) % BlockSize # 0
    /\ Len(g.rt.plain) > Len(g.rt.body)

\* the header at the front of buf is whole and a byte of it (ciphertext or
\* MAC) was altered in transit
AlteredHeader(s, buf) ==
    /\ s.rlpx_state \in {"AuthAckRecieved", "Active"}
    /\ s.secrets.some
    /\ s.frame_state = DecodingHeader
    /\ Len(buf) >= FRAME_HEADER_CIPHERTEXT_SIZE + FRAME_MAC_SIZE
    /\ \E i \in 1..(FRAME_HEADER_CIPHERTEXT_SIZE + FRAME_MAC_SIZE) : buf[i] = Junk

\* what follows the header at the front of buf once the header has been
\* taken (by this call or an earlier one), and the secrets at that point
AfterHeader(s, buf) ==
    LET hdr == s.frame_state = DecodingHeader
        h == decode_frame_header(s.secrets, buf)
    IN  [ok |-> hdr => (Len(buf) >= FRAME_HEADER_CIPHERTEXT_SIZE + FRAME_MAC_SIZE /\ h.ok),
         sec |-> IF hdr THEN h.sec ELSE s.secrets,
         size |-> IF hdr THEN h.size ELSE s.frame_state.size,
         rest |-> IF hdr THEN Drop(buf, FRAME_HEADER_CIPHERTEXT_SIZE + FRAME_MAC_SIZE)
                  ELSE buf]

\* the header verifies (or was taken before), the body and its MAC are whole
\* in buf and a byte of them was altered in transit
AlteredBody(s, buf) ==
    /\ s.rlpx_state \in {"AuthAckRecieved", "Active"}
    /\ s.secrets.some
    /\ AfterHeader(s, buf).ok
    /\ LET a == AfterHeader(s, buf)
       IN  /\ Len(a.rest) >= a.size + FRAME_MAC_SIZE
           /\ \E i \in 1..(a.size + FRAME_MAC_SIZE) : a.rest[i] = Junk

\* C11: the decode call that meets an altered header (ciphertext or MAC)
\* fails with a header MAC mismatch, leaves the inbound key-stream,
\* frame_state and the buffer as they were; the decode call that meets an
\* altered body (ciphertext or MAC) fails with a frame MAC mismatch, with the
\* inbound key-stream applied to the header only and the body still
\* encrypted in the buffer.  Neither returns a message.
C11_AlteredFrameFailsAuthentication ==
    [][/\ (Decode /\ AlteredHeader(Session, src))
          => /\ proc' = "running" /\ ret' = "Err"
             /\ g'.err = "Header MAC mismatch!"
             /\ secrets'.aes_keystream_ingress = secrets.aes_keystream_ingress
             /\ frame_state' = frame_state
             /\ src' = src
       /\ (Decode /\ AlteredBody(Session, src))
          => /\ proc' = "running" /\ ret' = "Err"
             /\ g'.err = "Frame MAC mismatch!"
             /\ secrets'.aes_keystream_ingress =
                    AfterHeader(Session, src).sec.aes_keystream_ingress
             /\ src' = AfterHeader(Session, src).rest]_vars

\* a decode call has refused a frame whose body was altered: the altered
\* byte is still in the buffer, behind a header that was taken
C11_Witness ==
    /\ proc = "running" /\ ret = "Err" /\ g.err = "Frame MAC mismatch!"
    /\ g.tampers = 1
    /\ frame_state.tag = "DecodingFrame"
    /\ \E i \in 1..Len(src) : src[i] = Junk

\* whether sequence a is the front of sequence b
IsPrefix(a, b) == Len(a) <= Len(b) /\ Take(b, Len(a)) = a

\* C12: once the secrets exist, no encode or decode call resets or replaces
\* the outbound MAC accumulator: what it holds after a step starts with what
\* it held before, and every frame written makes it strictly longer.
C12_OutboundMacOnlyGrows ==
    [][secrets.some
       => /\ secrets'.some
          /\ IsPrefix(secrets.egress_mac, secrets'.egress_mac)
          /\ (Encode("Hello") /\ proc' = "running")
             => Len(secrets'.egress_mac) > Len(secrets.egress_mac)]_vars

\* C13: between two sessions A and B, B's decode of the Auth bytes A encoded
\* accepts them and leaves B with a secrets bundle, and once each side has
\* decoded the other's Hello both sessions are Active.
C13_TwoSessionsShakeHands ==
    [][/\ (/\ PairDecodeB
           /\ rlpx_state = "AuthSent"
           /\ dst = AuthRequest
           /\ peer.s = NewSession)
          => (/\ peer'.proc = "running"
              /\ peer'.ret \notin {"Err", "None"}
              /\ peer'.s.secrets.some)
       /\ (g'.ahello /\ g'.bhello)
          => (rlpx_state' = "Active" /\ peer'.s.rlpx_state = "Active")]_vars

\* the errors of a failed MAC check
MacFailures == {"Header MAC mismatch!", "Frame MAC mismatch!"}

\* C14: once a decode call has failed with a header or frame MAC mismatch,
\* the decode call that follows fails too and changes neither the inbound
\* MAC accumulator nor the inbound key-stream.
C14_NoRetryAfterMacFailure ==
    [][(Decode /\ ret = "Err" /\ g.err \in MacFailures)
       => /\ ret' = "Err"
          /\ secrets'.ingress_mac = secrets.ingress_mac
          /\ secrets'.aes_keystream_ingress = secrets.aes_keystream_ingress]_vars

\* the header seeds folded into a MAC accumulator
HSeeds(mac) == Cardinality({i \in 1..Len(mac) : mac[i][1] = "hseed"})

\* the padded body length the remote node declared for the record the
\* session decodes next
DeclaredSize ==
    g.reclens[g.oks + 1] - (FRAME_HEADER_CIPHERTEXT_SIZE + 2 * FRAME_MAC_SIZE)

\* the header at the front of src verifies and less than its body follows
HeaderThenPartialBody ==
    /\ rlpx_state \in {"AuthAckRecieved", "Active"}
    /\ secrets.some
    /\ frame_state.tag = "DecodingHeader"
    /\ AfterHeader(Session, src).ok
    /\ Len(AfterHeader(Session, src).rest) < AfterHeader(Session, src).size

\* C15: the decode call that verifies a header takes it from the buffer,
\* folds one header seed into the inbound MAC accumulator, applies the
\* key-stream to its 16 bytes and leaves the declared body length in
\* frame_state; while frame_state holds a body length no call folds a header
\* seed or applies the key-stream to anything but the body, and frame_state
\* goes back to DecodingHeader only in the call that decodes the body.
C15_HeaderProcessedOnce ==
    [][/\ (Decode /\ HeaderThenPartialBody)
          => /\ ret' = "None"
             /\ frame_state'.tag = "DecodingFrame"
             /\ frame_state'.size = DeclaredSize
             /\ src' = Drop(src, FRAME_HEADER_CIPHERTEXT_SIZE + FRAME_MAC_SIZE)
             /\ HSeeds(secrets'.ingress_mac) = HSeeds(secrets.ingress_mac) + 1
             /\ secrets'.aes_keystream_ingress.pos =
                    secrets.aes_keystream_ingress.pos + FRAME_HEADER_CIPHERTEXT_SIZE
       /\ frame_state.tag = "DecodingFrame"
          => /\ HSeeds(secrets'.ingress_mac) = HSeeds(secrets.ingress_mac)
             /\ \/ /\ frame_state' = frame_state
                   /\ secrets'.aes_keystream_ingress = secrets.aes_keystream_ingress
                \/ /\ Decode
                   /\ frame_state'.tag = "DecodingHeader" <=> ret' = "Hello"
                   /\ secrets'.aes_keystream_ingress.pos =
                          secrets.aes_keystream_ingress.pos + frame_state.size]_vars

\* a call has returned Ok(None) with the header of a frame taken and a part
\* of its body in the buffer: the session holds the declared body length
\* and one header seed per header taken since the handshake
C15_Witness ==
    /\ proc = "running" /\ ret = "None"
    /\ frame_state.tag = "DecodingFrame"
    /\ frame_state.size = DeclaredSize
    /\ Len(src) > 0 /\ Len(src) < frame_state.size
    /\ HSeeds(secrets.ingress_mac) = g.decoded + 1

\* C16: rlpx_state becomes Active only in a decode call made in
\* AuthAckReceived on a frame whose header MAC and body MAC verify and whose
\* message id is Hello, the call returning the Hello; by then the session
\* has been through AuthSent (an Auth was encoded) and AuthAckReceived (the
\* secrets were installed).  No encode call and no other decode outcome
\* sets Active.
C16_ActiveOnlyThroughHello ==
    [][(rlpx_state' = "Active" /\ rlpx_state # "Active")
       => /\ Decode
          /\ rlpx_state = "AuthAckRecieved"
          /\ PeekFrame(Session, src) = HelloID
          /\ ret' = "Hello"
          /\ g.auths >= 1
          /\ g.installs >= 1]_vars

\* the session has just become Active on the first frame after the handshake
C16_Witness ==
    /\ proc = "running" /\ rlpx_state = "Active" /\ ret = "Hello"
    /\ g.decoded = 1 /\ g.installs = 1

C18_FailuresAreReturned ==
    [][(Encode("Hello") \/ Decode)
       => /\ proc' = "running"
          /\ (Encode("Hello") /\ ~secrets.some)
             => /\ ret' = "Err"
                /\ rlpx_state' = rlpx_state
                /\ frame_state' = frame_state
                /\ secrets' = secrets]_vars

\* C19: in every state a run of encode and decode calls reaches, a session
\* in AuthAckReceived or Active holds its secrets, so the frame decoder of
\* those states always finds them.
C19_SecretsPresentWhenDecodingFrames ==
    rlpx_state \in {"AuthAckRecieved", "Active"} => secrets.some

\* an Active session whose frame decoder has run on its secrets twice
C19_Witness ==
    /\ proc = "running" /\ rlpx_state = "Active" /\ secrets.some
    /\ g.decoded = 2

\* C20: encode(Hello) changes neither the inbound key-stream, nor the
\* inbound MAC accumulator, nor frame_state, nor rlpx_state; a decode call
\* in AuthAckReceived or Active changes neither the outbound key-stream nor
\* the outbound MAC accumulator.
C20_DirectionsAreIndependent ==
    [][/\ Encode("Hello")
          => /\ secrets'.aes_keystream_ingress = secrets.aes_keystream_ingress
             /\ secrets'.ingress_mac = secrets.ingress_mac
             /\ frame_state' = frame_state
             /\ rlpx_state' = rlpx_state
       /\ (Decode /\ rlpx_state \in {"AuthAckRecieved", "Active"})
          => /\ secrets'.aes_keystream_egress = secrets.aes_keystream_egress
             /\ secrets'.egress_mac = secrets.egress_mac]_vars

\* a frame has just been decoded on a session that has written one itself
C20_Witness ==
    /\ proc = "running" /\ ret = "Hello"
    /\ secrets.aes_keystream_egress.pos > 0
    /\ secrets.aes_keystream_ingress.pos > 0

\* C21: a decode call that returns an error takes no bytes from the buffer
\* and leaves rlpx_state, frame_state and both key-streams as they were.
C21_ErrorChangesNothing ==
    [][(Decode /\ ret' = "Err")
       => /\ src' = src
          /\ rlpx_state' = rlpx_state
          /\ frame_state' = frame_state
          /\ secrets'.aes_keystream_ingress = secrets.aes_keystream_ingress
          /\ secrets'.aes_keystream_egress = secrets.aes_keystream_egress]_vars

\* C21 as amended: a decode call that returns an error leaves rlpx_state
\* and the outbound key-stream as they were; it takes no bytes and leaves
\* frame_state and the inbound key-stream as they were, unless it verified
\* a header and then failed on the MAC of the body: then the 32 bytes of
\* the header are taken, frame_state holds the declared body length and the
\* inbound key-stream has advanced over the 16 header bytes.
C21_ErrorKeepsAllButATakenHeader ==
    [][(Decode /\ ret' = "Err")
       => /\ rlpx_state' = rlpx_state
          /\ secrets'.aes_keystream_egress = secrets.aes_keystream_egress
          /\ IF frame_state.tag = "DecodingHeader" /\ g'.err = "Frame MAC mismatch!"
             THEN /\ src' = Drop(src, FRAME_HEADER_CIPHERTEXT_SIZE + FRAME_MAC_SIZE)
                  /\ frame_state'.tag = "DecodingFrame"
                  /\ frame_state'.size = AfterHeader(Session, src).size
                  /\ secrets'.aes_keystream_ingress =
                         KeystreamAdvance(secrets.aes_keystream_ingress,
                                          FRAME_HEADER_CIPHERTEXT_SIZE)
             ELSE /\ src' = src
                  /\ frame_state' = frame_state
                  /\ secrets'.aes_keystream_ingress =
                         secrets.aes_keystream_ingress]_vars

\* a decode call has failed on the body MAC of the first frame after the
\* handshake: the header is gone from the buffer, the body and its MAC are
\* all of it, and the inbound key-stream stands right after the header
C21_Witness ==
    /\ proc = "running" /\ ret = "Err" /\ g.err = "Frame MAC mismatch!"
    /\ g.fails = 1
    /\ frame_state.tag = "DecodingFrame"
    /\ Len(src) = frame_state.size + FRAME_MAC_SIZE
    /\ secrets.aes_keystream_ingress.pos = FRAME_HEADER_CIPHERTEXT_SIZE

====
